---- MODULE Spec2Model ----
(***************************************************************************)
(* Deposit-session tracking and bridge administration of the poker UI.     *)
(*                                                                         *)
(* Four React components are modelled, one per behaviour:                  *)
(*   "hook"   - useDepositSession (src/src/hooks/deposit/useDepositSession) *)
(*   "page"   - QRDeposit          (src/unnamed/part_003, lines 596..1618) *)
(*   "bridge" - BridgeAdminDashboard (src/unnamed/part_001, lines 198..)   *)
(*   "table"  - Table (src/unnamed/part_003, lines 1789..) with its        *)
(*              PlayerPopUpCard (src/src/components/playPage/Players)      *)
(*                                                                         *)
(* React state is a record of the useState cells.  A handler's setState    *)
(* calls are batched; after the batch the effects whose dependencies       *)
(* changed run with the values of that render, and their own setState      *)
(* calls cause a further render.  Commit computes this to its fixpoint, so  *)
(* every action is a handler together with the renders it causes.          *)
(* Asynchronous handlers are split at their awaits; what a callback reads   *)
(* after an await is the closure of the render that created it.            *)
(*                                                                         *)
(* progressPercentage is held in thirds of a percent (Pct(80) = 240), so    *)
(* that 80 + ((30 - c) / 30) * 20 stays an integer.                        *)
(***************************************************************************)
EXTENDS Integers, Sequences, FiniteSets, TLC

\* ------------------------------------------------------------------ bounds
\* Sessions the proxy creates in one behaviour of the hook, and of the page.
MaxHookSessions == 2
MaxPageSessions == 1
\* Requests of a component awaiting their answer at one time.
MaxInFlight == 1
\* Deposits on the page of the bridge contract the dashboard shows.
MaxDeposits == 2

\* While a countdown runs, the user, the server and the payment act only in
\* its first MaxPaySeconds seconds and in its last MaxSkewSeconds seconds: a
\* payment is made soon after the QR code is shown or not at all, and the server
\* expires a session when the client does.  In between only the timers tick and
\* a POST /deposit-sessions may be answered; a GET that is still waiting when
\* the middle starts fails then; and of two countdowns that are both in their
\* middle the completion countdown ticks first.
MaxPaySeconds == 2
MaxSkewSeconds == 1
\* Seats of the largest table.
MaxTableSize == 9

\* ------------------------------------------------------- program constants
\* setTimeLeft(300): the session lasts five minutes.
SessionSeconds == 300
\* setCompletionCountdown(20).
CountdownStart == 20
\* The divisor and minuend of the progress formula, 80 + ((30 - c) / 30) * 20.
CountdownSpan == 30

Null == "null"
TxOrder == <<"DETECTED", "PROCESSING", "CONFIRMING", "CONFIRMED", "COMPLETED">>
TxStatuses == {TxOrder[i] : i \in 1..Len(TxOrder)}
SessionStatuses == {"PENDING", "PROCESSING", "COMPLETED", "EXPIRED"}
DefaultError == "Failed to create deposit session"

\* Position of a transaction status in the order of the pipeline; null is 0.
Rank(s) == IF s = Null THEN 0 ELSE CHOOSE i \in 1..Len(TxOrder) : TxOrder[i] = s

Pct(n) == 3 * n
Min(a, b) == IF a <= b THEN a ELSE b
Max(a, b) == IF a >= b THEN a ELSE b

\* A DepositSession as the client holds it; NullSession stands for null.
NullSession == [id |-> 0, status |-> Null, txStatus |-> Null]
Session(i, st, tx) == [id |-> i, status |-> st, txStatus |-> tx]

\* The ways a payment reaches the component: the proxy sees it by itself; the
\* Etherscan list shows it; a Transfer event shows it; the user sends it from the
\* connected wallet with handleDirectTransfer.
Channels == {"proxy", "etherscan", "events", "wallet"}

VARIABLES
    component,    \* which component this behaviour follows: "hook", "page", "bridge",
                  \* "table"
    channel,      \* how a payment of this behaviour is made and seen
    mounted,      \* FALSE once the component has been unmounted
    server,       \* the proxy's deposit session of the user
    hook,         \* useDepositSession: its useState cells
    hookCreates,  \* createSession calls awaiting the POST, each with its closure
    hookPolls,    \* intervals started by createSession, each with its closure
    page,         \* QRDeposit: its useState cells
    requests,     \* QRDeposit: the HTTP and chain requests awaiting their answer
    etherscan,    \* intervals started by startPolling: the sessionId each completes, 0 for none
    transfer,     \* handleDirectTransfer: where it stands, and its closure
    lateCallback, \* TRUE once an interval callback has run after the unmount
    bridge,       \* BridgeAdminDashboard: its useState cells
    chain,        \* the deposit indices the Cosmos chain has processed
    loadTask,     \* loadDeposits: where it stands, and the list it checks
    rowTasks,     \* handleProcessDeposit calls under way: index and stage
    allTask,      \* handleProcessAllPending: where it stands, and its pendingDeposits
    submitted,    \* the last processDeposit call: its index, and the status the
                  \* dashboard showed for that deposit when it was made
    table         \* Table: tableSize, startIndex, isCardVisible, the vacant seats,
                  \* and the calls the last click in a PlayerPopUpCard made

hookVars == <<hook, hookCreates, hookPolls>>
pageVars == <<page, requests, etherscan, transfer>>
bridgeVars == <<bridge, chain, loadTask, rowTasks, allTask, submitted>>
depositVars == <<channel, mounted, server, hookVars, pageVars, lateCallback>>
vars == <<component, channel, mounted, server, hookVars, pageVars, lateCallback, bridgeVars,
          table>>

\* ------------------------------------------------------------------ server
\* The proxy is outside the repository.  It keeps one session per user address.
\* A session is PENDING until a transaction is detected (the client stops looking
\* for transfers once the status has left PENDING) or it expires; a PROCESSING
\* session moves its txStatus forward through TxOrder, one status at a time, and
\* is COMPLETED once its txStatus is; a finished session may be removed.
NoServerSession == [id |-> 0, status |-> "NONE", txStatus |-> Null]

ServerDetect ==
    /\ channel = "proxy"
    /\ server.status = "PENDING"
    /\ server' = [server EXCEPT !.status = "PROCESSING", !.txStatus = TxOrder[1]]

ServerAdvanceTx ==
    /\ server.status = "PROCESSING"
    /\ Rank(server.txStatus) < Len(TxOrder)
    /\ server' = [server EXCEPT !.txStatus = TxOrder[Rank(server.txStatus) + 1]]

ServerAdvanceStatus ==
    \/ /\ server.status = "PENDING"
       /\ server' = [server EXCEPT !.status = "EXPIRED"]
    \/ /\ server.status = "PROCESSING" /\ server.txStatus = "COMPLETED"
       /\ server' = [server EXCEPT !.status = "COMPLETED"]

ServerDropSession ==
    /\ server.status \in {"COMPLETED", "EXPIRED"}
    /\ server' = [server EXCEPT !.status = "NONE", !.txStatus = Null]

\* What PUT /deposit-sessions/<id>/complete may leave on the server and return:
\* a PENDING session is taken into processing, with or without a txStatus yet.
ServerCompleted(id) ==
    IF server.id # id \/ server.status = "NONE" THEN {}
    ELSE IF server.status = "PENDING"
         THEN {[server EXCEPT !.status = "PROCESSING"],
               [server EXCEPT !.status = "PROCESSING", !.txStatus = TxOrder[1]]}
         ELSE {server}

\* What POST /deposit-sessions leaves on the server and returns.
ServerCreated == [id |-> server.id + 1, status |-> "PENDING", txStatus |-> Null]

\* The error an axios call rejects with: with or without a response, and the
\* response with or without an error text.
ErrorResponses ==
    {[hasResponse |-> FALSE, error |-> Null]} \cup
    {[hasResponse |-> TRUE, error |-> e] : e \in {Null, "", "Session already exists"}}

\* ------------------------------------------------------- useDepositSession
InitialState ==
    [sessionId |-> 0, currentSession |-> NullSession, showQR |-> FALSE,
     timeLeft |-> SessionSeconds, transactionStatus |-> Null,
     progressPercentage |-> 0, completionCountdown |-> 0,
     isDepositCompleted |-> FALSE, error |-> Null]

getProgressFromStatus(status) ==
    CASE status = "DETECTED" -> Pct(20)
      [] status = "PROCESSING" -> Pct(40)
      [] status = "CONFIRMING" -> Pct(60)
      [] status = "CONFIRMED" -> Pct(80)
      [] status = "COMPLETED" -> Pct(100)
      [] OTHER -> Pct(0)

\* useEffect [transactionStatus]: r is the render the effect closes over, acc the
\* state the batch of this round's setState calls is building.
ProgressEffect(r, acc) ==
    IF r.transactionStatus # Null
    THEN [acc EXCEPT !.progressPercentage = getProgressFromStatus(r.transactionStatus),
                     !.completionCountdown =
                         IF r.transactionStatus = "CONFIRMED" THEN CountdownStart ELSE @]
    ELSE acc

\* useEffect [completionCountdown, transactionStatus], the part that runs at once;
\* with completionCountdown > 0 it only installs the interval (CountdownTick).
CountdownEffect(r, acc) ==
    IF r.completionCountdown <= 0 /\ r.transactionStatus = "CONFIRMED"
    THEN [acc EXCEPT !.transactionStatus = "COMPLETED"]
    ELSE acc

\* One render of the hook after `prev`: the effects whose dependencies changed.
HookEffects(prev, r) ==
    LET tsChanged == r.transactionStatus # prev.transactionStatus
        ccChanged == r.completionCountdown # prev.completionCountdown
        a1 == IF tsChanged THEN ProgressEffect(r, r) ELSE r
    IN  IF tsChanged \/ ccChanged THEN CountdownEffect(r, a1) ELSE a1

RECURSIVE HookCommit(_, _)
HookCommit(prev, r) ==
    LET n == HookEffects(prev, r)
    IN  IF n = r THEN r ELSE HookCommit(r, n)

\* setState after unmount changes nothing.
HookSet(r) == IF mounted THEN HookCommit(hook, r) ELSE hook

\* The interval of the completion countdown: installed while completionCountdown > 0.
CountdownTickOf(s) ==
    [s EXCEPT !.completionCountdown = @ - 1,
              !.progressPercentage =
                  Min(Pct(80) + ((CountdownSpan - s.completionCountdown) * Pct(20)) \div CountdownSpan,
                      Pct(100))]

\* The interval of the session expiry: installed while the QR code of a PENDING
\* session is shown and time is left.
ExpiryTimerOn(s) ==
    /\ s.showQR
    /\ s.currentSession # NullSession
    /\ s.currentSession.status = "PENDING"
    /\ s.timeLeft > 0

\* ExpiryTickOf without the expiry at 0, to see that SessionExpires tells it apart.
ExpiryTickStaysPending(s) ==
    [s EXCEPT !.timeLeft = Max(s.timeLeft - 1, 0)]

ExpiryTickOf(s) ==
    LET newTime == s.timeLeft - 1
    IN  IF newTime <= 0
        THEN [s EXCEPT !.timeLeft = 0, !.showQR = FALSE,
                       !.currentSession = [@ EXCEPT !.status = "EXPIRED"]]
        ELSE [s EXCEPT !.timeLeft = newTime]

\* The state of the component this behaviour follows.
Client == IF component = "hook" THEN hook ELSE page

\* The middle of a countdown, between the two windows of the bounds.
MidExpiry ==
    /\ mounted
    /\ ExpiryTimerOn(Client)
    /\ Client.timeLeft < SessionSeconds - MaxPaySeconds
    /\ Client.timeLeft > MaxSkewSeconds

MidCountdown ==
    /\ mounted
    /\ Client.completionCountdown < CountdownStart - MaxPaySeconds
    /\ Client.completionCountdown > MaxSkewSeconds

Quiet == MidExpiry \/ MidCountdown

\* A tick of the expiry timer, or of the completion countdown, that enters the
\* middle of its countdown.
EntersMidExpiry(s) ==
    /\ s.timeLeft - 1 < SessionSeconds - MaxPaySeconds
    /\ s.timeLeft - 1 > MaxSkewSeconds

EntersMidCountdown(s) ==
    /\ s.completionCountdown - 1 < CountdownStart - MaxPaySeconds
    /\ s.completionCountdown - 1 > MaxSkewSeconds

\* The closure of checkSessionStatus in a render: what its guard and its
\* comparison read.
PollClosure(s) ==
    [live |-> s.sessionId # 0 /\ s.currentSession # NullSession /\ ~s.isDepositCompleted,
     transactionStatus |-> s.transactionStatus]

\* ErrorText without the text of the server, to see that
\* CreateFailureOnlySetsError tells it apart.
ErrorTextDefaultOnly(err) == DefaultError

ErrorText(err) ==
    IF err.hasResponse /\ err.error \notin {Null, ""} THEN err.error ELSE DefaultError

\* checkSessionStatus after its GET returned `session`, under closure c.
PollResultOf(s, c, session) ==
    LET changed == session.txStatus # Null /\ session.txStatus # c.transactionStatus
    IN  [s EXCEPT !.currentSession = session,
                  !.transactionStatus = IF changed THEN session.txStatus ELSE @,
                  !.isDepositCompleted =
                      IF changed /\ session.txStatus = "COMPLETED" THEN TRUE ELSE @]

HookCountdownTick ==
    /\ component = "hook" /\ mounted
    /\ hook.completionCountdown > 0
    /\ MidCountdown \/ ~MidExpiry
    /\ hook' = HookCommit(hook, CountdownTickOf(hook))
    /\ UNCHANGED <<component, table, channel, mounted, server, hookCreates, hookPolls, pageVars, lateCallback, bridgeVars>>

HookExpiryTick ==
    /\ component = "hook" /\ mounted
    /\ ExpiryTimerOn(hook)
    /\ ~MidCountdown
    /\ hook' = HookCommit(hook, ExpiryTickOf(hook))
    /\ UNCHANGED <<component, table, channel, mounted, server, hookCreates, hookPolls, pageVars, lateCallback, bridgeVars>>

\* createSession is called: the POST leaves; the closure is the one of this render.
HookCreateCall ==
    /\ component = "hook" /\ mounted
    /\ ~Quiet
    /\ Cardinality(hookCreates) < MaxInFlight
    /\ hookCreates' = hookCreates \cup {PollClosure(hook)}
    /\ UNCHANGED <<component, table, channel, mounted, server, hook, hookPolls, pageVars, lateCallback, bridgeVars>>

HookCreateOk ==
    /\ component = "hook"
    /\ server.id < MaxHookSessions
    /\ \E c \in hookCreates :
          /\ hookCreates' = hookCreates \ {c}
          /\ hookPolls' = hookPolls \cup {c}
    /\ server' = ServerCreated
    /\ hook' = HookSet([hook EXCEPT !.currentSession = ServerCreated,
                                    !.sessionId = ServerCreated.id,
                                    !.showQR = TRUE,
                                    !.timeLeft = SessionSeconds,
                                    !.error = Null,
                                    !.transactionStatus = Null,
                                    !.progressPercentage = 0,
                                    !.isDepositCompleted = FALSE])
    /\ UNCHANGED <<component, table, channel, mounted, pageVars, lateCallback, bridgeVars>>

HookCreateFail ==
    /\ component = "hook"
    /\ \E c \in hookCreates : hookCreates' = hookCreates \ {c}
    /\ \E err \in ErrorResponses :
          hook' = HookSet([hook EXCEPT !.error = ErrorText(err)])
    /\ UNCHANGED <<component, table, channel, mounted, server, hookPolls, pageVars, lateCallback, bridgeVars>>

\* A 5-second poll whose closure passes the guard: the GET and its answer.
HookPoll ==
    /\ component = "hook"
    /\ ~Quiet
    /\ \E c \in hookPolls :
          /\ c.live
          /\ \/ /\ server.status # "NONE"
                /\ hook' = HookSet(PollResultOf(hook, c, server))
             \/ hook' = hook
    /\ lateCallback' = (lateCallback \/ ~mounted)
    /\ UNCHANGED <<component, table, channel, mounted, server, hookCreates, hookPolls, pageVars, bridgeVars>>

\* A 5-second poll whose closure fails the guard: it returns at once.
HookPollSkip ==
    /\ component = "hook"
    /\ ~Quiet
    /\ \E c \in hookPolls : ~c.live
    /\ lateCallback' = (lateCallback \/ ~mounted)
    /\ UNCHANGED <<component, table, channel, mounted, server, hookVars, pageVars, bridgeVars>>

resetSession ==
    /\ component = "hook" /\ mounted
    /\ ~Quiet
    /\ hook' = HookCommit(hook, [hook EXCEPT !.sessionId = 0,
                                             !.currentSession = NullSession,
                                             !.showQR = FALSE,
                                             !.timeLeft = SessionSeconds,
                                             !.transactionStatus = Null,
                                             !.progressPercentage = 0,
                                             !.isDepositCompleted = FALSE,
                                             !.error = Null])
    /\ UNCHANGED <<component, table, channel, mounted, server, hookCreates, hookPolls, pageVars, lateCallback, bridgeVars>>

\* ---------------------------------------------------------------- QRDeposit
\* The session handleDirectTransfer makes up when the proxy cannot be reached:
\* its _id starts with "web3-", here a negative id.
FakeSession == [id |-> 0 - 1, status |-> "PENDING", txStatus |-> Null]

\* What checkExistingSession may find for (expiresAt - now) / 1000, floored.
RemainingSamples == {0 - 1, 0, 1, SessionSeconds, SessionSeconds + 1}

\* useEffect [showQR, currentSession]: "Reset completion state when starting a
\* new QR code session".
ResetCompletionEffect(r, acc) ==
    IF r.showQR /\ r.currentSession.status = "PENDING"
    THEN [acc EXCEPT !.isDepositCompleted = FALSE]
    ELSE acc

\* One render of the page after `prev`; `touched` says that setCurrentSession was
\* given a new object, which changes the dependency even when the fields agree.
PageEffects(prev, r, touched) ==
    LET tsChanged == r.transactionStatus # prev.transactionStatus
        ccChanged == r.completionCountdown # prev.completionCountdown
        a1 == IF tsChanged THEN ProgressEffect(r, r) ELSE r
        a2 == IF tsChanged \/ ccChanged THEN CountdownEffect(r, a1) ELSE a1
    IN  IF touched \/ r.showQR # prev.showQR THEN ResetCompletionEffect(r, a2) ELSE a2

RECURSIVE PageCommit(_, _, _)
PageCommit(prev, r, touched) ==
    LET n == PageEffects(prev, r, touched)
    IN  IF n = r THEN r ELSE PageCommit(r, n, FALSE)

\* The sessionId completeSession holds in the startPolling of a render whose
\* currentSession is PENDING; 0 for a startPolling that completes nothing.
StartPollingClosure(s) ==
    IF s.currentSession.status = "PENDING" THEN s.sessionId ELSE 0

\* startPolling is a new function when sessionId or currentSession?.status
\* changed, and the effect [loggedInAccount, startPolling] runs again.
StartPollingChanged(prev, r) ==
    \/ r.sessionId # prev.sessionId
    \/ r.currentSession.status # prev.currentSession.status

\* A request in flight: its kind and what the code that awaits it closed over.
Req(kind, sessionId, status, transactionStatus) ==
    [kind |-> kind, sessionId |-> sessionId, status |-> status,
     transactionStatus |-> transactionStatus]

Pending(kind) == {q \in requests : q.kind = kind}

\* The asynchronous operations of the page that are under way.
InFlight == Cardinality(requests) + (IF transfer.stage = "idle" THEN 0 ELSE 1)

\* The requests in flight after an effect or an interval sent one more: when
\* MaxInFlight are waiting, one whose failure is only logged fails first.
Fit(S, x) ==
    LET logged == {y \in S : y.kind # "create"}
    IN  IF Cardinality(S \cup {x}) <= MaxInFlight \/ logged = {}
        THEN {S \cup {x}}
        ELSE {(S \ {y}) \cup {x} : y \in logged}

\* The setState calls of a handler of the page with the renders they cause, and
\* the checkExistingSession that a new startPolling sends; `reqs` are the
\* requests the handler leaves in flight.
PageSet(r, touched, reqs) ==
    IF mounted
    THEN /\ page' = PageCommit(page, r, touched)
         /\ requests' \in IF StartPollingChanged(page, r)
                          THEN Fit(reqs, Req("check", StartPollingClosure(r), Null, Null))
                          ELSE {reqs}
    ELSE /\ page' = page
         /\ requests' = reqs

\* No payment is under way: no PUT of completeSession is waiting and
\* handleDirectTransfer is not running.
Settled == Pending("put") = {} /\ transfer.stage = "idle"

\* The requests in flight after a tick of a countdown: when it enters the middle
\* of the countdown, those whose failure is only logged have failed.
AfterTick(enters) == IF enters THEN Pending("create") ELSE requests

PageCountdownTick ==
    /\ component = "page" /\ mounted
    /\ page.completionCountdown > 0
    /\ MidCountdown \/ ~MidExpiry
    /\ EntersMidCountdown(page) => Settled
    /\ PageSet(CountdownTickOf(page), FALSE, AfterTick(EntersMidCountdown(page)))
    /\ UNCHANGED <<component, table, channel, mounted, server, hookVars, etherscan, transfer, lateCallback, bridgeVars>>

PageExpiryTick ==
    /\ component = "page" /\ mounted
    /\ ExpiryTimerOn(page)
    /\ ~MidCountdown
    /\ EntersMidExpiry(page) => Settled
    /\ PageSet(ExpiryTickOf(page), page.timeLeft - 1 <= 0, AfterTick(EntersMidExpiry(page)))
    /\ UNCHANGED <<component, table, channel, mounted, server, hookVars, etherscan, transfer, lateCallback, bridgeVars>>

\* handleGenerateQR is clicked (the button is rendered while showQR is false):
\* the POST leaves; startPolling is the one of this render.
PageGenerateCall ==
    /\ component = "page" /\ mounted
    /\ ~Quiet
    /\ ~page.showQR
    /\ InFlight < MaxInFlight
    /\ requests' = requests \cup {Req("create", StartPollingClosure(page), Null, Null)}
    /\ UNCHANGED <<component, table, channel, mounted, server, hookVars, page, etherscan, transfer,
                   lateCallback, bridgeVars>>

PageGenerateOk ==
    /\ component = "page"
    /\ server.id < MaxPageSessions
    /\ server' = ServerCreated
    /\ \E q \in Pending("create") :
          /\ etherscan' = etherscan \cup {q.sessionId}
          /\ PageSet([page EXCEPT !.currentSession = ServerCreated,
                                  !.sessionId = ServerCreated.id,
                                  !.showQR = TRUE,
                                  !.timeLeft = SessionSeconds,
                                  !.error = Null,
                                  !.transactionStatus = Null,
                                  !.progressPercentage = 0], TRUE, requests \ {q})
    /\ UNCHANGED <<component, table, channel, mounted, hookVars, transfer, lateCallback, bridgeVars>>

PageGenerateFail ==
    /\ component = "page"
    /\ \E q \in Pending("create") : \E err \in ErrorResponses :
          PageSet([page EXCEPT !.error = ErrorText(err)], FALSE, requests \ {q})
    /\ UNCHANGED <<component, table, channel, mounted, server, hookVars, etherscan, transfer, lateCallback, bridgeVars>>

\* The interval of the session polling: installed while there is a session that
\* is not completed; checkSessionStatus passes its guard and sends the GET.
PagePollStart ==
    /\ component = "page" /\ mounted
    /\ ~Quiet
    /\ page.currentSession # NullSession /\ page.sessionId # 0
    /\ ~page.isDepositCompleted
    /\ InFlight < MaxInFlight
    /\ requests' = requests \cup
           {Req("poll", 0, IF page.currentSession.status = "COMPLETED" THEN "COMPLETED" ELSE Null,
                page.transactionStatus)}
    /\ UNCHANGED <<component, table, channel, mounted, server, hookVars, page, etherscan, transfer,
                   lateCallback, bridgeVars>>

\* checkSessionStatus after its GET returned `session`, under closure q.
PagePollResultOf(s, q, session) ==
    LET changed == session.txStatus # Null /\ session.txStatus # q.transactionStatus
        done == \/ changed /\ session.txStatus = "COMPLETED"
                \/ session.status = "COMPLETED" /\ q.status # "COMPLETED"
    IN  [s EXCEPT !.currentSession = session,
                  !.transactionStatus = IF changed THEN session.txStatus ELSE @,
                  !.isDepositCompleted = IF done THEN TRUE ELSE @]

\* checkSessionStatus after its GET was answered 404, under closure q.
PagePollNotFoundOf(s, q) ==
    IF q.status # "COMPLETED"
    THEN [s EXCEPT !.isDepositCompleted = TRUE, !.currentSession = NullSession,
                   !.showQR = FALSE]
    ELSE [s EXCEPT !.isDepositCompleted = TRUE]

PagePollAnswered ==
    /\ component = "page"
    /\ ~Quiet
    /\ \E q \in Pending("poll") :
          \/ /\ server.status # "NONE"
             /\ PageSet(PagePollResultOf(page, q, server), TRUE, requests \ {q})
          \/ /\ server.status = "NONE"
             /\ PageSet(PagePollNotFoundOf(page, q), q.status # "COMPLETED", requests \ {q})
    /\ UNCHANGED <<component, table, channel, mounted, server, hookVars, etherscan, transfer,
                   lateCallback, bridgeVars>>

\* checkSessionStatus after its GET failed otherwise: the error is logged.
PagePollFailed ==
    /\ component = "page"
    /\ ~Quiet
    /\ \E q \in Pending("poll") : requests' = requests \ {q}
    /\ UNCHANGED <<component, table, channel, mounted, server, hookVars, page, etherscan,
                   transfer, lateCallback, bridgeVars>>

\* checkExistingSession after its GET returned `session` with `remaining` seconds
\* until expiresAt.
ExistingSessionOf(s, session, remaining) ==
    [s EXCEPT !.currentSession = session,
              !.sessionId = session.id,
              !.showQR = TRUE,
              !.transactionStatus = IF session.txStatus # Null THEN session.txStatus ELSE @,
              !.timeLeft = Min(Max(0, remaining), SessionSeconds)]

\* What the GET of checkExistingSession may bring: an error (a 404 when the
\* server has no session of the account), or the session, or no data.
CheckAnswers ==
    {[ok |-> FALSE, session |-> NullSession]} \cup
    {[ok |-> TRUE,
      session |-> IF server.status = "NONE" THEN NullSession ELSE server]}

\* The session checkExistingSession loads: an active one.
ActiveStatus(ans) ==
    /\ ans.ok /\ ans.session # NullSession
    /\ ans.session.status \in {"PENDING", "PROCESSING"}

\* CheckExistingOf without the test of the status, to see that
\* ExistingSessionAdoption tells it apart.
CheckExistingAnyStatus(s, ans, remaining) ==
    IF ans.ok /\ ans.session # NullSession
    THEN ExistingSessionOf(s, ans.session, remaining) ELSE s

\* The state checkExistingSession leaves after the answer `ans`.
CheckExistingOf(s, ans, remaining) ==
    IF ActiveStatus(ans) THEN ExistingSessionOf(s, ans.session, remaining) ELSE s

PageCheckResponse ==
    /\ component = "page"
    /\ ~Quiet
    /\ \E q \in Pending("check") : \E ans \in CheckAnswers :
          IF ActiveStatus(ans)
          THEN \E d \in RemainingSamples :
                   /\ PageSet(CheckExistingOf(page, ans, d), TRUE, requests \ {q})
                   /\ etherscan' = IF Max(0, d) > 0
                                   THEN etherscan \cup {q.sessionId} ELSE etherscan
          ELSE /\ requests' = requests \ {q}
               /\ UNCHANGED <<page, etherscan>>
    /\ UNCHANGED <<component, table, channel, mounted, server, hookVars, transfer, lateCallback, bridgeVars>>

\* A 5-second tick of an interval of startPolling: the Etherscan list holds a
\* transaction and the closure's session was PENDING, so completeSession runs up
\* to its PUT; or there is nothing to complete.
PageEtherscanPoll ==
    /\ component = "page"
    /\ ~Quiet
    /\ \E e \in etherscan :
          \/ /\ channel = "etherscan" /\ e # 0
             /\ \E R \in Fit(requests, Req("put", e, Null, Null)) :
                   PageSet([page EXCEPT !.transactionStatus = "DETECTED"], FALSE, R)
          \/ UNCHANGED <<page, requests>>
    /\ lateCallback' = (lateCallback \/ ~mounted)
    /\ UNCHANGED <<component, table, channel, mounted, server, hookVars, etherscan, transfer, bridgeVars>>

\* The state after the answer `data` of the PUT.
CompletedOf(s, data) ==
    [s EXCEPT !.currentSession = data,
              !.transactionStatus = IF data.txStatus # Null THEN data.txStatus
                                    ELSE "PROCESSING"]

PagePutResponse ==
    /\ component = "page"
    /\ ~Quiet
    /\ \E q \in Pending("put") :
          \/ \E data \in ServerCompleted(q.sessionId) :
                /\ server' = data
                /\ PageSet(CompletedOf(page, data), TRUE, requests \ {q})
          \/ /\ requests' = requests \ {q}
             /\ UNCHANGED <<page, server>>
    /\ UNCHANGED <<component, table, channel, mounted, hookVars, etherscan, transfer, lateCallback, bridgeVars>>

\* The interval of checkForTransfer: installed while the QR code of a PENDING
\* session is shown; the query for Transfer events leaves.
PageTransferQuery ==
    /\ component = "page" /\ mounted
    /\ ~Quiet
    /\ page.showQR /\ page.currentSession.status = "PENDING"
    /\ InFlight < MaxInFlight
    /\ requests' = requests \cup {Req("query", page.currentSession.id, Null, Null)}
    /\ UNCHANGED <<component, table, channel, mounted, server, hookVars, page, etherscan, transfer,
                   lateCallback, bridgeVars>>

\* checkForTransfer after the query: a Transfer event was found and the PUT
\* leaves, or none was found.
PageTransferQueryResponse ==
    /\ component = "page"
    /\ ~Quiet
    /\ \E q \in Pending("query") :
          \/ /\ channel = "events"
             /\ PageSet([page EXCEPT !.transactionStatus = "DETECTED"], FALSE,
                        (requests \ {q}) \cup {Req("put", q.sessionId, Null, Null)})
          \/ /\ requests' = requests \ {q}
             /\ page' = page
    /\ UNCHANGED <<component, table, channel, mounted, server, hookVars, etherscan, transfer, lateCallback, bridgeVars>>

\* handleDirectTransfer, from the click to its first await: the POST when there
\* is no session, otherwise the signer.  completeSession is the one of this render.
DirectTransferClick ==
    /\ component = "page" /\ mounted
    /\ channel = "wallet"
    /\ ~Quiet
    /\ InFlight < MaxInFlight
    /\ transfer' = [stage |-> IF page.currentSession = NullSession THEN "creating"
                              ELSE "signing",
                    sessionId |-> page.sessionId,
                    real |-> page.currentSession.id > 0]
    /\ UNCHANGED <<component, table, channel, mounted, server, hookVars, page, requests, etherscan,
                   lateCallback, bridgeVars>>

DirectTransferCreateOk ==
    /\ component = "page"
    /\ ~Quiet
    /\ transfer.stage = "creating"
    /\ server.id < MaxPageSessions
    /\ server' = ServerCreated
    /\ PageSet([page EXCEPT !.currentSession = ServerCreated,
                            !.sessionId = ServerCreated.id], TRUE, requests)
    /\ transfer' = [transfer EXCEPT !.stage = "signing", !.real = TRUE]
    /\ UNCHANGED <<component, table, channel, mounted, hookVars, etherscan, lateCallback, bridgeVars>>

DirectTransferCreateFail ==
    /\ component = "page"
    /\ ~Quiet
    /\ transfer.stage = "creating"
    /\ PageSet([page EXCEPT !.currentSession = FakeSession], TRUE, requests)
    /\ transfer' = [transfer EXCEPT !.stage = "signing", !.real = FALSE]
    /\ UNCHANGED <<component, table, channel, mounted, server, hookVars, etherscan, lateCallback, bridgeVars>>

\* The signer is there: setTransactionStatus("DETECTED"), and the transfer is sent.
DirectTransferSigned ==
    /\ component = "page"
    /\ ~Quiet
    /\ transfer.stage = "signing"
    /\ PageSet([page EXCEPT !.transactionStatus = "DETECTED"], FALSE, requests)
    /\ transfer' = [transfer EXCEPT !.stage = "sending"]
    /\ UNCHANGED <<component, table, channel, mounted, server, hookVars, etherscan, lateCallback, bridgeVars>>

\* The wallet returned the transaction: setTransactionStatus("PROCESSING").
DirectTransferSent ==
    /\ component = "page"
    /\ ~Quiet
    /\ transfer.stage = "sending"
    /\ PageSet([page EXCEPT !.transactionStatus = "PROCESSING"], FALSE, requests)
    /\ transfer' = [transfer EXCEPT !.stage = "waiting"]
    /\ UNCHANGED <<component, table, channel, mounted, server, hookVars, etherscan, lateCallback, bridgeVars>>

\* tx.wait() returned: completeSession runs up to its PUT for a session of the
\* proxy (it returns at once when its sessionId is null), else the handler ends.
DirectTransferMined ==
    /\ component = "page"
    /\ ~Quiet
    /\ transfer.stage = "waiting"
    /\ \/ /\ transfer.real /\ transfer.sessionId # 0
          /\ PageSet([page EXCEPT !.transactionStatus = "DETECTED"], FALSE, requests)
          /\ transfer' = [transfer EXCEPT !.stage = "completing"]
       \/ /\ ~(transfer.real /\ transfer.sessionId # 0)
          /\ transfer' = [stage |-> "idle", sessionId |-> 0, real |-> FALSE]
          /\ UNCHANGED <<page, requests>>
    /\ UNCHANGED <<component, table, channel, mounted, server, hookVars, etherscan, lateCallback, bridgeVars>>

\* The PUT of completeSession was answered, or failed; the handler ends.
DirectTransferCompleted ==
    /\ component = "page"
    /\ ~Quiet
    /\ transfer.stage = "completing"
    /\ \/ \E data \in ServerCompleted(transfer.sessionId) :
             /\ server' = data
             /\ PageSet(CompletedOf(page, data), TRUE, requests)
       \/ UNCHANGED <<page, requests, server>>
    /\ transfer' = [stage |-> "idle", sessionId |-> 0, real |-> FALSE]
    /\ UNCHANGED <<component, table, channel, mounted, hookVars, etherscan, lateCallback, bridgeVars>>

\* The signer, the transfer or the wait threw: setTransactionStatus(null).
DirectTransferFailed ==
    /\ component = "page"
    /\ ~Quiet
    /\ transfer.stage \in {"signing", "sending", "waiting"}
    /\ PageSet([page EXCEPT !.transactionStatus = Null], FALSE, requests)
    /\ transfer' = [stage |-> "idle", sessionId |-> 0, real |-> FALSE]
    /\ UNCHANGED <<component, table, channel, mounted, server, hookVars, etherscan, lateCallback, bridgeVars>>

\* ------------------------------------------------------ BridgeAdminDashboard
\* The wallet is connected and holds enough STAKE; one page of the contract's
\* deposits is shown.
Indices == 0..(MaxDeposits - 1)
NoIndex == 0 - 1
IdleLoad == [stage |-> "idle", list |-> <<>>]
IdleAll == [stage |-> "idle", queue |-> <<>>]
NoSubmit == [index |-> NoIndex, status |-> Null]

\* deposits.filter(d => d.status === st), as the sequence of the indices.
RECURSIVE IndicesWith(_, _)
IndicesWith(deposits, st) ==
    IF deposits = <<>> THEN <<>>
    ELSE (IF Head(deposits).status = st THEN <<Head(deposits).index>> ELSE <<>>)
         \o IndicesWith(Tail(deposits), st)

pendingCount == Len(IndicesWith(bridge.deposits, "pending"))

\* The values of the Filter select and of the Sort button.
Filters == {"all", "processed", "pending"}
SortOrders == {"asc", "desc"}

\* The comparator of the sort: negative when a comes before b.
CompareIndex(a, b, sortOrder) ==
    IF sortOrder = "desc" THEN b.index - a.index ELSE a.index - b.index

\* Array.prototype.sort, which is stable: x goes behind the elements of the
\* sorted list that do not come after it.
RECURSIVE InsertSorted(_, _, _)
InsertSorted(x, sorted, sortOrder) ==
    IF sorted = <<>> \/ CompareIndex(sorted[Len(sorted)], x, sortOrder) <= 0
    THEN Append(sorted, x)
    ELSE Append(InsertSorted(x, SubSeq(sorted, 1, Len(sorted) - 1), sortOrder),
                sorted[Len(sorted)])

RECURSIVE SortBy(_, _)
SortBy(list, sortOrder) ==
    IF list = <<>> THEN <<>>
    ELSE InsertSorted(list[Len(list)], SortBy(SubSeq(list, 1, Len(list) - 1), sortOrder),
                      sortOrder)

Shown(d) == bridge.filter = "all" \/ d.status = bridge.filter

\* filteredDeposits without the sort, to see that FilterShowsSelected tells
\* it apart.
filteredDepositsUnsorted == SelectSeq(bridge.deposits, Shown)

\* The rows of the table.
filteredDeposits == SortBy(SelectSeq(bridge.deposits, Shown), bridge.sortOrder)

\* The Filter select is changed.
setFilter ==
    /\ component = "bridge"
    /\ \E f \in Filters \ {bridge.filter} : bridge' = [bridge EXCEPT !.filter = f]
    /\ UNCHANGED <<component, table, depositVars, chain, loadTask, rowTasks, allTask, submitted>>

\* The Sort button is clicked.
handleSortOrderChange ==
    /\ component = "bridge"
    /\ bridge' = [bridge EXCEPT !.sortOrder = IF @ = "desc" THEN "asc" ELSE "desc"]
    /\ UNCHANGED <<component, table, depositVars, chain, loadTask, rowTasks, allTask, submitted>>

\* The status the dashboard shows for deposit i; null when it is not listed.
StatusOf(deposits, i) ==
    IF \E k \in 1..Len(deposits) : deposits[k].index = i
    THEN deposits[CHOOSE k \in 1..Len(deposits) : deposits[k].index = i].status
    ELSE Null

\* prev.map(d => d.index === i ? {...d, status: st} : d)
MapStatus(deposits, i, st) ==
    [k \in 1..Len(deposits) |->
        IF deposits[k].index = i THEN [deposits[k] EXCEPT !.status = st] ELSE deposits[k]]

\* The Refresh button (disabled while isLoading): loadDeposits starts.
LoadStart ==
    /\ component = "bridge"
    /\ ~bridge.isLoading /\ loadTask.stage = "idle"
    /\ bridge' = [bridge EXCEPT !.isLoading = TRUE]
    /\ loadTask' = [stage |-> "querying", list |-> <<>>]
    /\ UNCHANGED <<component, table, depositVars, chain, rowTasks, allTask, submitted>>

\* The contract was read: the first n deposits exist, each listed as "loading";
\* or the provider threw.
LoadQueried ==
    /\ component = "bridge"
    /\ loadTask.stage = "querying"
    /\ \/ \E n \in 0..MaxDeposits :
             LET newDeposits == [k \in 1..n |-> [index |-> k - 1, status |-> "loading"]]
             IN  /\ bridge' = [bridge EXCEPT !.deposits = newDeposits]
                 /\ loadTask' = [stage |-> "checking", list |-> newDeposits]
       \/ /\ bridge' = [bridge EXCEPT !.isLoading = FALSE]
          /\ loadTask' = IdleLoad
    /\ UNCHANGED <<component, table, depositVars, chain, rowTasks, allTask, submitted>>

\* checkProcessingStatus: each deposit of the list it was given becomes processed
\* when the chain says so, and pending when it does not or cannot be asked.
CheckedLists(list) ==
    {l \in [1..Len(list) -> [index : Indices, status : {"processed", "pending"}]] :
        \A k \in 1..Len(list) :
            /\ l[k].index = list[k].index
            /\ l[k].status = "processed" => list[k].index \in chain}

LoadChecked ==
    /\ component = "bridge"
    /\ loadTask.stage = "checking"
    /\ \E updatedDeposits \in CheckedLists(loadTask.list) :
          bridge' = [bridge EXCEPT !.deposits = updatedDeposits, !.isLoading = FALSE]
    /\ loadTask' = IdleLoad
    /\ UNCHANGED <<component, table, depositVars, chain, rowTasks, allTask, submitted>>

\* The Process button of row i: shown for a pending or failed deposit, disabled
\* while processingIndex is i.  The handler runs up to getSigningClient.
handleProcessDeposit ==
    /\ component = "bridge"
    /\ Cardinality(rowTasks) < MaxInFlight
    /\ \E i \in Indices :
          /\ StatusOf(bridge.deposits, i) \in {"pending", "error"}
          /\ bridge.processingIndex # i
          /\ bridge' = [bridge EXCEPT !.processingIndex = i]
          /\ rowTasks' = rowTasks \cup {[index |-> i, stage |-> "signing"]}
    /\ UNCHANGED <<component, table, depositVars, chain, loadTask, allTask, submitted>>

\* getSigningClient returned and processDeposit(index) is called; or it threw.
RowSigned ==
    /\ component = "bridge"
    /\ \E t \in rowTasks :
          /\ t.stage = "signing"
          /\ \/ /\ submitted' = [index |-> t.index,
                                 status |-> StatusOf(bridge.deposits, t.index)]
                /\ rowTasks' = (rowTasks \ {t}) \cup {[t EXCEPT !.stage = "submitting"]}
                /\ bridge' = bridge
             \/ /\ bridge' = [bridge EXCEPT
                                 !.deposits = MapStatus(@, t.index, "error"),
                                 !.processingIndex = NoIndex]
                /\ rowTasks' = rowTasks \ {t}
                /\ submitted' = submitted
    /\ UNCHANGED <<component, table, depositVars, chain, loadTask, allTask>>

\* processDeposit returned the hash and the 2-second timeout is set; or it threw.
RowSubmitted ==
    /\ component = "bridge"
    /\ \E t \in rowTasks :
          /\ t.stage = "submitting"
          /\ \/ /\ chain' = chain \cup {t.index}
                /\ bridge' = [bridge EXCEPT !.processingIndex = NoIndex]
                /\ rowTasks' = (rowTasks \ {t}) \cup {[t EXCEPT !.stage = "waiting"]}
             \/ /\ bridge' = [bridge EXCEPT
                                 !.deposits = MapStatus(@, t.index, "error"),
                                 !.processingIndex = NoIndex]
                /\ rowTasks' = rowTasks \ {t}
                /\ chain' = chain
    /\ UNCHANGED <<component, table, depositVars, loadTask, allTask, submitted>>

\* The timeout fired: getTx reports the code of the transaction, or throws.
RowConfirmed ==
    /\ component = "bridge"
    /\ \E t \in rowTasks :
          /\ t.stage = "waiting"
          /\ \E st \in {"processed", "error"} :
                bridge' = [bridge EXCEPT !.deposits = MapStatus(@, t.index, st)]
          /\ rowTasks' = rowTasks \ {t}
    /\ UNCHANGED <<component, table, depositVars, chain, loadTask, allTask, submitted>>

\* The Process All Pending button: disabled while isProcessingAll or when
\* nothing is pending.  The loop runs over the deposits pending now.
handleProcessAllPending ==
    /\ component = "bridge"
    /\ ~bridge.isProcessingAll /\ pendingCount # 0
    /\ allTask.stage = "idle"
    /\ bridge' = [bridge EXCEPT !.isProcessingAll = TRUE]
    /\ allTask' = [stage |-> "signing", queue |-> IndicesWith(bridge.deposits, "pending")]
    /\ UNCHANGED <<component, table, depositVars, chain, loadTask, rowTasks, submitted>>

\* The loop after the deposit at the head of the queue: the next one, or the end.
AllAfter(queue) ==
    IF Len(queue) > 1 THEN [stage |-> "signing", queue |-> Tail(queue)] ELSE IdleAll

\* setState calls of the loop when it moves on from the head of the queue.
AllMoved(b, st) ==
    [b EXCEPT !.deposits = MapStatus(@, Head(allTask.queue), st),
              !.isProcessingAll = IF Len(allTask.queue) > 1 THEN @ ELSE FALSE]

\* getSigningClient returned and processDeposit(deposit.index) is called; or it
\* threw and the loop goes on.
AllSigned ==
    /\ component = "bridge"
    /\ allTask.stage = "signing"
    /\ \/ /\ submitted' = [index |-> Head(allTask.queue),
                           status |-> StatusOf(bridge.deposits, Head(allTask.queue))]
          /\ allTask' = [allTask EXCEPT !.stage = "submitting"]
          /\ bridge' = bridge
       \/ /\ bridge' = AllMoved(bridge, "error")
          /\ allTask' = AllAfter(allTask.queue)
          /\ submitted' = submitted
    /\ UNCHANGED <<component, table, depositVars, chain, loadTask, rowTasks>>

\* processDeposit returned: the deposit is marked processed and the loop waits
\* one second; or it threw and the loop goes on.
AllSubmitted ==
    /\ component = "bridge"
    /\ allTask.stage = "submitting"
    /\ \/ /\ chain' = chain \cup {Head(allTask.queue)}
          /\ bridge' = [bridge EXCEPT
                           !.deposits = MapStatus(@, Head(allTask.queue), "processed")]
          /\ allTask' = [allTask EXCEPT !.stage = "delay"]
       \/ /\ bridge' = AllMoved(bridge, "error")
          /\ allTask' = AllAfter(allTask.queue)
          /\ chain' = chain
    /\ UNCHANGED <<component, table, depositVars, loadTask, rowTasks, submitted>>

\* The one-second delay is over.
AllDelayed ==
    /\ component = "bridge"
    /\ allTask.stage = "delay"
    /\ bridge' = [bridge EXCEPT
                     !.isProcessingAll = IF Len(allTask.queue) > 1 THEN @ ELSE FALSE]
    /\ allTask' = AllAfter(allTask.queue)
    /\ UNCHANGED <<component, table, depositVars, chain, loadTask, rowTasks, submitted>>

\* ---------------------------------------------- Table and PlayerPopUpCard
TableSizes == 2..MaxTableSize
NoCard == 0 - 1

\* The Table after the mount: no rotation, no card visible; every seat vacant
\* and no call made yet.
TableInitial(n) ==
    [tableSize |-> n, startIndex |-> 0, isCardVisible |-> NoCard,
     vacant |-> 1..n, calls |-> <<>>]

Seats == 1..table.tableSize

\* The rotation formula without the offset, to see that RotationIsOneToOne
\* tells it apart.
seatNumberUnrotated(uiPosition) == (uiPosition % table.tableSize) + 1

\* seatNumber = ((uiPosition + startIndex) % tableSize) + 1
seatNumber(uiPosition) == ((uiPosition + table.startIndex) % table.tableSize) + 1

\* PlayerPopUpCard rendering its popup whatever isVacant is, to see that
\* PopUpActsOnVacantSeat tells it apart.
PopUpRendersAlways(isVacant) == TRUE

\* PlayerPopUpCard returns null unless isVacant.
PopUpRenders(isVacant) == isVacant

\* The calls handleActionClick makes, in their order.
ActionClickCalls(id) ==
    <<[fn |-> "setStartIndex", arg |-> id - 1], [fn |-> "onClose", arg |-> NoCard]>>

\* What a call does to the Table: setStartIndex is its state setter, onClose
\* closes the popup.
AfterCall(t, call) ==
    IF call.fn = "setStartIndex" THEN [t EXCEPT !.startIndex = call.arg]
    ELSE [t EXCEPT !.isCardVisible = NoCard]

RECURSIVE AfterCalls(_, _)
AfterCalls(t, calls) ==
    IF calls = <<>> THEN t ELSE AfterCalls(AfterCall(t, Head(calls)), Tail(calls))

tableRest == <<component, depositVars, bridgeVars>>

\* A seat is clicked and its card becomes the visible one.
setCardVisible ==
    /\ component = "table"
    /\ \E id \in Seats \ {table.isCardVisible} :
          table' = [table EXCEPT !.isCardVisible = id, !.calls = <<>>]
    /\ UNCHANGED tableRest

\* A player takes a vacant seat, or leaves one.
PlayerJoins ==
    /\ component = "table"
    /\ \E id \in table.vacant : table' = [table EXCEPT !.vacant = @ \ {id}, !.calls = <<>>]
    /\ UNCHANGED tableRest

PlayerLeaves ==
    /\ component = "table"
    /\ \E id \in Seats \ table.vacant :
          table' = [table EXCEPT !.vacant = @ \cup {id}, !.calls = <<>>]
    /\ UNCHANGED tableRest

\* The action button of the visible card is clicked.
handleActionClick ==
    /\ component = "table"
    /\ table.isCardVisible \in Seats
    /\ PopUpRenders(table.isCardVisible \in table.vacant)
    /\ LET calls == ActionClickCalls(table.isCardVisible)
       IN  table' = [AfterCalls(table, calls) EXCEPT !.calls = calls]
    /\ UNCHANGED tableRest

\* The close button of the visible card is clicked: onClose.
CloseClick ==
    /\ component = "table"
    /\ table.isCardVisible \in Seats
    /\ PopUpRenders(table.isCardVisible \in table.vacant)
    /\ LET calls == <<[fn |-> "onClose", arg |-> NoCard]>>
       IN  table' = [AfterCalls(table, calls) EXCEPT !.calls = calls]
    /\ UNCHANGED tableRest

\* The component is unmounted: the cleanups of its effects clear their intervals.
\* The intervals of startPolling are not an effect's; the one of createSession is
\* cleared when the caller kept the function createSession returned and calls it.
Unmount ==
    /\ component \in {"hook", "page"}
    /\ mounted
    /\ mounted' = FALSE
    /\ \E kept \in BOOLEAN : hookPolls' = IF kept THEN {} ELSE hookPolls
    /\ UNCHANGED <<component, table, channel, server, hook, hookCreates, pageVars, lateCallback,
                   bridgeVars>>

ServerStep ==
    /\ component \in {"hook", "page"} /\ mounted
    /\ ~Quiet
    /\ (ServerDetect \/ ServerAdvanceTx \/ ServerAdvanceStatus \/ ServerDropSession)
    /\ UNCHANGED <<component, table, channel, mounted, hookVars, pageVars, lateCallback, bridgeVars>>

\* After the mount, in one of `scenarios`, the pairs of a component and a channel:
\* QRDeposit has read the stored account and its checkExistingSession is waiting
\* for the GET; the dashboard is loading its deposits.
InitWith(scenarios, sessions) ==
    /\ \E sc \in scenarios : component = sc[1] /\ channel = sc[2]
    /\ mounted = TRUE
    /\ server \in sessions
    /\ hook = InitialState
    /\ hookCreates = {}
    /\ hookPolls = {}
    /\ page = InitialState
    /\ requests = IF component = "page"
                  THEN {Req("check", StartPollingClosure(InitialState), Null, Null)}
                  ELSE {}
    /\ etherscan = {}
    /\ transfer = [stage |-> "idle", sessionId |-> 0, real |-> FALSE]
    /\ lateCallback = FALSE
    /\ \E saved \in IF component = "bridge" THEN SortOrders ELSE {"desc"} :
          bridge = [deposits |-> <<>>, isLoading |-> component = "bridge",
                    processingIndex |-> NoIndex, isProcessingAll |-> FALSE,
                    filter |-> "all", sortOrder |-> saved]
    /\ chain \in IF component = "bridge" THEN SUBSET Indices ELSE {{}}
    /\ loadTask = IF component = "bridge" THEN [stage |-> "querying", list |-> <<>>]
                  ELSE IdleLoad
    /\ rowTasks = {}
    /\ allTask = IdleAll
    /\ submitted = NoSubmit
    /\ table \in IF component = "table"
                 THEN {TableInitial(n) : n \in TableSizes}
                 ELSE {TableInitial(MaxTableSize)}

\* The mount when the server has no session of the account yet.
InitOf(scenarios) == InitWith(scenarios, {NoServerSession})

Init ==
    InitOf({<<"hook", "proxy">>, <<"bridge", "proxy">>} \cup {<<"page", c>> : c \in Channels})

Next ==
    \/ HookCreateCall \/ HookCreateOk \/ HookCreateFail
    \/ HookPoll \/ HookPollSkip
    \/ HookCountdownTick \/ HookExpiryTick
    \/ resetSession
    \/ PageGenerateCall \/ PageGenerateOk \/ PageGenerateFail
    \/ PagePollStart \/ PagePollAnswered \/ PagePollFailed
    \/ PageCheckResponse
    \/ PageEtherscanPoll \/ PagePutResponse
    \/ PageTransferQuery \/ PageTransferQueryResponse
    \/ DirectTransferClick \/ DirectTransferCreateOk \/ DirectTransferCreateFail
    \/ DirectTransferSigned \/ DirectTransferSent \/ DirectTransferMined
    \/ DirectTransferCompleted \/ DirectTransferFailed
    \/ PageCountdownTick \/ PageExpiryTick
    \/ LoadStart \/ LoadQueried \/ LoadChecked
    \/ handleProcessDeposit \/ RowSigned \/ RowSubmitted \/ RowConfirmed
    \/ handleProcessAllPending \/ AllSigned \/ AllSubmitted \/ AllDelayed
    \/ setFilter \/ handleSortOrderChange
    \/ Unmount
    \/ ServerStep

Spec == Init /\ [][Next]_vars

\* The hook alone, its 5-second intervals firing again and again.
HookInit == InitOf({<<"hook", "proxy">>})

HookNext ==
    \/ HookCreateCall \/ HookCreateOk \/ HookCreateFail
    \/ HookPoll \/ HookPollSkip
    \/ HookCountdownTick \/ HookExpiryTick
    \/ resetSession
    \/ Unmount
    \/ ServerStep

HookFairSpec ==
    HookInit /\ [][HookNext]_vars /\ WF_vars(HookPoll) /\ WF_vars(HookPollSkip)

\* The hook and the page when no payment is made on any channel.  The one-second
\* expiry interval fires again and again, and each request is answered, whatever
\* the other requests do.
ExpiryInit == InitOf({<<"hook", "none">>, <<"page", "none">>})

HookAnswer == HookCreateOk \/ HookCreateFail
PageCreateAnswer == PageGenerateOk \/ PageGenerateFail
PagePollAnswer == PagePollAnswered \/ PagePollFailed
PageAnswer ==
    \/ PageCreateAnswer
    \/ PagePollAnswer
    \/ PageCheckResponse
    \/ PageTransferQueryResponse

ExpiryNext ==
    \/ HookCreateCall \/ HookAnswer
    \/ HookPoll \/ HookPollSkip
    \/ HookExpiryTick
    \/ resetSession
    \/ PageGenerateCall \/ PagePollStart \/ PageTransferQuery \/ PageAnswer
    \/ PageEtherscanPoll
    \/ PageExpiryTick
    \/ Unmount
    \/ ServerStep

ExpirySpec ==
    /\ ExpiryInit /\ [][ExpiryNext]_vars
    /\ SF_vars(HookExpiryTick) /\ SF_vars(PageExpiryTick)
    /\ WF_vars(HookAnswer)
    /\ WF_vars(PageCreateAnswer) /\ WF_vars(PagePollAnswer)
    /\ WF_vars(PageCheckResponse) /\ WF_vars(PageTransferQueryResponse)

\* QRDeposit mounted when the server may hold a session of the account from an
\* earlier visit, in any state of its life.
ExistingSessions ==
    {NoServerSession, Session(1, "PENDING", Null), Session(1, "EXPIRED", Null),
     Session(1, "PROCESSING", Null), Session(1, "COMPLETED", "COMPLETED")}
    \cup {Session(1, "PROCESSING", t) : t \in TxStatuses}

MountInit == InitWith({<<"page", "proxy">>}, ExistingSessions)

MountNext ==
    \/ PageCountdownTick \/ PageExpiryTick
    \/ PageGenerateCall \/ PageCreateAnswer
    \/ PagePollStart \/ PagePollAnswer
    \/ PageCheckResponse
    \/ PageEtherscanPoll
    \/ PageTransferQuery \/ PageTransferQueryResponse
    \/ Unmount
    \/ ServerStep

MountSpec == MountInit /\ [][MountNext]_vars

\* The dashboard alone, its deposits processed row by row.
BridgeInit == InitOf({<<"bridge", "proxy">>})

BridgeNext ==
    \/ LoadStart \/ LoadQueried \/ LoadChecked
    \/ handleProcessDeposit \/ RowSigned \/ RowSubmitted \/ RowConfirmed
    \/ setFilter \/ handleSortOrderChange

BridgeSpec == BridgeInit /\ [][BridgeNext]_vars

\* The poker table alone.
TableInit == InitOf({<<"table", "none">>})

TableNext ==
    \/ setCardVisible
    \/ PlayerJoins \/ PlayerLeaves
    \/ handleActionClick \/ CloseClick

TableSpec == TableInit /\ [][TableNext]_vars

\* ------------------------------------------------------------------ claims

\* C1: within one session (no creation in the step) transactionStatus never
\* changes from a later status of the order DETECTED -> PROCESSING -> CONFIRMING
\* -> CONFIRMED -> COMPLETED to an earlier one, while the server reports its
\* txStatus in that order.
TxStatusNeverRegresses ==
    [][(/\ mounted
        /\ server'.id = server.id
        /\ Client.transactionStatus \in TxStatuses
        /\ Client'.transactionStatus \in TxStatuses)
       => Rank(Client'.transactionStatus) >= Rank(Client.transactionStatus)]_vars

\* C2: after createSession succeeded on a hook that had no session, once the
\* server reports a txStatus for that session, a later poll of the interval that
\* createSession started gives the hook the server's session and txStatus, unless
\* the hook was unmounted or reset, or the session is gone, before.
FirstSessionReported ==
    /\ component = "hook" /\ mounted
    /\ server.id = 1 /\ hook.sessionId = server.id
    /\ server.txStatus # Null

FirstSessionAdopted ==
    /\ hook.currentSession.txStatus # Null
    /\ hook.transactionStatus # Null

FirstSessionLeft ==
    \/ ~mounted
    \/ hook.sessionId # server.id
    \/ server.status = "NONE"

PollAdoptsServerStatus ==
    FirstSessionReported ~> (FirstSessionAdopted \/ FirstSessionLeft)

\* C3: a successful creation sets timeLeft to 300; each tick of the expiry timer
\* takes one second off and, at 0, makes the session EXPIRED and hides the QR
\* code; and when the QR code of a PENDING session is shown and no payment is
\* made, that state is reached, unless the component is unmounted, the session is
\* reset or lost, the server says it expired, or a session with no time left is
\* adopted, before.
ExpiryTickOutcome ==
    /\ Client'.timeLeft = Client.timeLeft - 1
    /\ IF Client'.timeLeft = 0
       THEN Client'.currentSession.status = "EXPIRED" /\ ~Client'.showQR
       ELSE Client'.currentSession = Client.currentSession /\ Client'.showQR

ExpiryPending == mounted /\ ExpiryTimerOn(Client)

ExpiredShown ==
    /\ Client.currentSession.status = "EXPIRED"
    /\ ~Client.showQR
    /\ Client.timeLeft = 0

ExpiryInterrupted ==
    \/ ~mounted
    \/ Client.currentSession = NullSession
    \/ Client.currentSession.status = "EXPIRED" /\ Client.showQR
    \/ Client.currentSession.status = "PENDING" /\ Client.showQR /\ Client.timeLeft = 0

NoCallbackAfterUnmount == ~lateCallback

\* C5: in QRDeposit, a poll that observes txStatus COMPLETED, status COMPLETED or
\* a 404 for the current session leaves isDepositCompleted true; it stays true
\* until handleGenerateQR creates a session; and no status request is sent while
\* it is true.
CompletionObserved ==
    /\ server.id = page.sessionId
    /\ \/ server.txStatus = "COMPLETED"
       \/ server.status \in {"COMPLETED", "NONE"}

PollingStopsOnceCompleted ==
    /\ [][(PagePollAnswered /\ mounted /\ CompletionObserved)
          => page'.isDepositCompleted]_vars
    /\ [][(page.isDepositCompleted /\ ~PageGenerateOk) => page'.isDepositCompleted]_vars
    /\ [][page.isDepositCompleted => ~PagePollStart]_vars

\* C6: the client itself (the server not reporting COMPLETED) changes the status
\* to COMPLETED only from CONFIRMED, in the tick that takes the completion
\* countdown from 1 to 0.
CompletedOnlyAfterCountdown ==
    [][(/\ mounted
        /\ Client.transactionStatus # "COMPLETED"
        /\ Client'.transactionStatus = "COMPLETED"
        /\ server'.txStatus # "COMPLETED")
       => (/\ Client.transactionStatus = "CONFIRMED"
           /\ Client.completionCountdown = 1
           /\ Client'.completionCountdown = 0)]_vars

\* C7: completionCountdown is set to 30 when it is started, and a tick takes
\* one off.
CountdownStartsAtThirty ==
    [][/\ Client'.completionCountdown > Client.completionCountdown
          => Client'.completionCountdown = CountdownSpan
       /\ Client'.completionCountdown < Client.completionCountdown
          => Client'.completionCountdown = Client.completionCountdown - 1]_vars

\* C8: a tick of the completion countdown leaves progressPercentage within
\* 80..100 and never below what it was.
ProgressRisesInCountdown ==
    [][(HookCountdownTick \/ PageCountdownTick)
       => (/\ Client'.progressPercentage >= Client.progressPercentage
           /\ Client'.progressPercentage >= Pct(80)
           /\ Client'.progressPercentage <= Pct(100))]_vars

\* C9: processDeposit(index) is never called for a deposit the dashboard shows
\* as processed.
ProcessedNeverResubmitted == submitted.status # "processed"

\* C10: a failed creation sets error to the text of the server when there is one
\* and to "Failed to create deposit session" otherwise, changes no other cell and
\* starts no polling; a successful creation sets error to null.
ErrorTextAsReported ==
    \A err \in ErrorResponses :
        ErrorText(err) = IF err.hasResponse /\ err.error = "Session already exists"
                         THEN "Session already exists"
                         ELSE "Failed to create deposit session"

CreateFailureOutcome ==
    /\ Client'.error \in {ErrorText(err) : err \in ErrorResponses}
    /\ Client' = [Client EXCEPT !.error = Client'.error]
    /\ hookPolls' = hookPolls
    /\ etherscan' = etherscan
    /\ requests' \subseteq requests

CreateFailureOnlySetsError ==
    /\ []ErrorTextAsReported
    /\ [][((HookCreateFail \/ PageGenerateFail) /\ mounted) => CreateFailureOutcome]_vars
    /\ [][((HookCreateOk \/ PageGenerateOk) /\ mounted) => Client'.error = Null]_vars

\* A creation failed with the text of the server, on a client without a session.
CreateFailed ==
    /\ mounted
    /\ Client.error = "Session already exists"
    /\ Client.currentSession = NullSession /\ Client.sessionId = 0

\* C11: checkExistingSession sets currentSession, sessionId and showQR from the
\* session of the server exactly when the GET brought one whose status is
\* PENDING or PROCESSING, and then sets timeLeft to the remaining seconds
\* clamped into 0..300; after any other answer the three cells are as they
\* were, which on mount is null, null and false.
Clamped(d) == IF d < 0 THEN 0 ELSE IF d > 300 THEN 300 ELSE d

SessionCells(s) == <<s.currentSession, s.sessionId, s.showQR>>

AdoptionAsStated ==
    \A ans \in CheckAnswers : \A d \in RemainingSamples :
        LET r == CheckExistingOf(page, ans, d)
        IN  IF ans.ok /\ ans.session.status \in {"PENDING", "PROCESSING"}
            THEN /\ SessionCells(r) = <<ans.session, ans.session.id, TRUE>>
                 /\ r.timeLeft = Clamped(d)
            ELSE r = page

ExistingSessionAdoption ==
    /\ []AdoptionAsStated
    /\ [][(PageCheckResponse /\ mounted)
          => \/ page' = page
             \/ /\ server.status \in {"PENDING", "PROCESSING"}
                /\ SessionCells(page') = <<server, server.id, TRUE>>
                /\ page'.timeLeft \in {Clamped(d) : d \in RemainingSamples}]_vars
    /\ [][(PageCheckResponse /\ page = InitialState
            /\ server.status \notin {"PENDING", "PROCESSING"})
          => SessionCells(page') = <<NullSession, 0, FALSE>>]_vars

\* A session in processing was found on mount and adopted, with the one second
\* it had left; nothing was generated in this visit.
ExistingAdopted ==
    /\ mounted
    /\ server.id = 1 /\ server.status = "PROCESSING"
    /\ SessionCells(page) = <<server, 1, TRUE>>
    /\ page.timeLeft = 1
    /\ page.error = Null

\* C12: the table shows exactly the deposits whose status is the selected
\* filter, all of them under "all", each once, by descending index when the sort
\* order is desc and by ascending index when it is asc; a deposit that is
\* loading or failed is shown only under "all".
Occurrences(list, d) == Cardinality({i \in 1..Len(list) : list[i] = d})

FilterShowsSelected ==
    LET rows == filteredDeposits
        all == bridge.deposits
    IN  /\ \A i \in 1..Len(all) :
              Occurrences(rows, all[i]) =
                  IF bridge.filter = "all" \/ all[i].status = bridge.filter
                  THEN Occurrences(all, all[i]) ELSE 0
        /\ \A i \in 1..Len(rows) : Occurrences(all, rows[i]) > 0
        /\ \A i \in 1..Len(rows) : \A j \in 1..Len(rows) :
              i < j => IF bridge.sortOrder = "desc"
                       THEN rows[i].index > rows[j].index
                       ELSE rows[i].index < rows[j].index
        /\ \A i \in 1..Len(rows) :
              rows[i].status \in {"loading", "error"} => bridge.filter = "all"

\* Two pending deposits listed newest first under the filter "pending".
PendingNewestFirst ==
    /\ bridge.filter = "pending" /\ bridge.sortOrder = "desc"
    /\ Len(filteredDeposits) = 2
    /\ Len(bridge.deposits) = 2

====
